---- MODULE Spec2Model ----
(***************************************************************************)
(* Verification model of the mousefox tic-tac-toe client/server            *)
(* synchronisation: the game logic of src/logic/game.py, the client of     *)
(* src/logic/client.py, and the request dispatcher and lobby of the pgnet  *)
(* library they are built on; the tic-tac-toe game with its bot of         *)
(* src/tictactoe/game.py; the connection panel and the client frame of     *)
(* src/mousefox/app; and the app and the connection frame of src/gui.      *)
(***************************************************************************)
EXTENDS Integers, Sequences, FiniteSets, TLC

\* ---------------------------------------------------------------- bounds
MaxQueue == 2       \* packets a caller may find waiting in the outbound queue
MaxClients == 2     \* client objects alive at the same time

\* ------------------------------------------------------------- constants
ClientUser == "a"                   \* the user of the modelled client
Users == {"a", "b", "c"}
OtherUsers == Users \ {ClientUser}
Opponent == "b"                     \* seated, stays in the game
Visitors == {"c"}                   \* join and leave the game
Squares == {0, 1}                   \* the squares offered to play_square
None == <<"None">>                  \* Python None
EmptyStr == <<"">>                  \* Python ""
NoPayload == << >>                  \* Python {} (empty dict)
STATUS_OK == 0
STATUS_UNEXPECTED == 1
STATUS_BAD == 2

DEFAULT_PORT == 38929

\* the values the connection panel shows for a default _ConnectionConfig
PanelDefaults == [online |-> FALSE, advanced |-> FALSE, port |-> DEFAULT_PORT]

WINNING_LINES ==
    << <<0, 1, 2>>, <<3, 4, 5>>, <<6, 7, 8>>, <<0, 3, 6>>,
       <<1, 4, 7>>, <<2, 5, 8>>, <<0, 4, 8>>, <<2, 4, 6>> >>

BLANK_DATA ==
    [board |-> [i \in 0 .. 8 |-> ""], players |-> << >>,
     x_turn |-> TRUE, in_progress |-> FALSE]

\* A save string of a game in progress (persistent: in progress with a
\* marked square): X holds 4 and 8, O holds 3 and 5, X is to move.
SAVED_DATA ==
    [board |-> [i \in 0 .. 8 |->
                  IF i \in {4, 8} THEN "X" ELSE IF i \in {3, 5} THEN "O" ELSE ""],
     players |-> <<"a", "b">>, x_turn |-> TRUE, in_progress |-> TRUE]

VARIABLES
    \* server: Game
    board, players, x_turn, in_progress, outcome,
    \* server: users currently in the game
    in_game,
    \* client
    game_state, on_game_state, connected, game,
    \* dispatcher
    queue, in_flight, response,
    \* async_connect and the heartbeat task
    pc, heartbeat,
    \* observation of the last step
    last,
    \* server: the bot of the tic-tac-toe game is still thinking
    \* (arrow.now() <= _next_bot_turn), and the fingerprint the game last
    \* reported with no join, leave or command since
    bot_thinking, reported,
    \* app: the values of the connection panel and the client of the app
    connection_panel, _client,
    \* app: the client objects, the _async_set_client tasks not yet started,
    \* the screen shown, the frame that shows a client (0: none), the client
    \* whose status the status bar shows (0: none), the assertions that
    \* failed, the last _ConnectionConfig and the config files on disk
    clients, tasks, _sm, content, feedback, failed, config, config_file

gvars == <<board, players, x_turn, in_progress, outcome>>
cvars == <<game_state, on_game_state, connected, game>>
dvars == <<queue, in_flight, response>>
tvars == <<bot_thinking, reported>>
avars == <<connection_panel, _client, clients, tasks, _sm, content, feedback,
           failed, config, config_file>>
vars == <<board, players, x_turn, in_progress, outcome, in_game,
          game_state, on_game_state, connected, game,
          queue, in_flight, response, pc, heartbeat, last,
          bot_thinking, reported, connection_panel, _client,
          clients, tasks, _sm, content, feedback, failed, config, config_file>>

\* ------------------------------------------- connection config on disk
\* json.dumps and json.loads of the values of a save string or a config
\* file: a JSON text is modelled as its tokens, true / false for a bool, a
\* quoted text for a str and the sequence of its items for a list
json_dumps_bool(v) == IF v THEN "true" ELSE "false"
json_dumps_str(v) == <<"\"", v, "\"">>
json_dumps_list(l) == [i \in 1 .. Len(l) |-> json_dumps_str(l[i])]
json_loads_bool(t) == t = "true"
json_loads_str(t) == t[2]
json_loads_list(t) == [i \in 1 .. Len(t) |-> json_loads_str(t[i])]

Ports == {-1, 0, 1, DEFAULT_PORT, 65535, 65536}   \* inputs of the port widget
Usernames == {"guest"}                            \* inputs of the username
Pubkeys == {"", "k"}                              \* inputs of the pubkey

\* str(n) of an int, int(t) and bool(t) of a str
IntTexts == Ports \cup {0, 1}
str(n) ==
    CASE n = -1 -> "-1" [] n = 0 -> "0" [] n = 1 -> "1"
      [] n = DEFAULT_PORT -> "38929" [] n = 65535 -> "65535"
      [] n = 65536 -> "65536"
IsInt(t) == \E n \in IntTexts : str(n) = t
int(t) == CHOOSE n \in IntTexts : str(n) = t
bool(t) == t # ""

\* _ConnectionConfig(online, username, address, port, pubkey)
_ConnectionConfig(online, username, address, port, pubkey) ==
    [online |-> online, username |-> username, address |-> address,
     port |-> port, pubkey |-> pubkey]
ADMIN_USERNAME == "admin"
PanelConfig == _ConnectionConfig(FALSE, ADMIN_USERNAME, "localhost", DEFAULT_PORT, "")
FrameConfig == _ConnectionConfig(FALSE, "guest", "localhost", DEFAULT_PORT, "")
Configs ==
    {_ConnectionConfig(o, u, "localhost", p, k) :
        o \in BOOLEAN, u \in Usernames, p \in Ports, k \in Pubkeys}

\* a text as its lines and line ends: a line is one token, an empty line none
Line(l) == IF l = "" THEN << >> ELSE <<l>>

RECURSIVE splitlines(_)
splitlines(t) ==
    IF t = << >> THEN << >>
    ELSE IF t[1] = "\n" THEN <<"">> \o splitlines(Tail(t))
    ELSE IF Len(t) = 1 THEN <<t[1]>>
    ELSE <<t[1]>> \o splitlines(SubSeq(t, 3, Len(t)))

\* connectframe.py _ConnectionConfig.save_to_disk: the five values as text
\* lines, the online flag as int
Frame_save_to_disk(c) ==
    Line(str(IF c.online THEN 1 ELSE 0)) \o <<"\n">>
        \o Line(c.username) \o <<"\n">>
        \o Line(c.address) \o <<"\n">>
        \o Line(str(c.port)) \o <<"\n">>
        \o Line(c.pubkey) \o <<"\n">>

\* connectframe.py _ConnectionConfig.load_from_disk: any exception (no
\* file, not five lines, no int as port) gives the defaults
Frame_load_from_disk(text) ==
    LET lines == splitlines(text)
    IN  IF Len(lines) # 5 THEN FrameConfig
        ELSE IF ~IsInt(lines[4]) THEN FrameConfig
        ELSE _ConnectionConfig(bool(lines[1]), lines[2], lines[3],
                               int(lines[4]), lines[5])

\* connectpanel.py _ConnectionConfig.save_to_disk: json.dump of the fields
Panel_save_to_disk(c) ==
    << <<"online", json_dumps_bool(c.online)>>,
       <<"username", json_dumps_str(c.username)>>,
       <<"address", json_dumps_str(c.address)>>,
       <<"port", str(c.port)>>,
       <<"pubkey", json_dumps_str(c.pubkey)>> >>

\* connectpanel.py _ConnectionConfig.load_from_disk: cls() without a file,
\* else cls(**json.load(f))
Panel_load_from_disk(doc) ==
    IF doc = << >> THEN PanelConfig
    ELSE _ConnectionConfig(json_loads_bool(doc[1][2]), json_loads_str(doc[2][2]),
                           json_loads_str(doc[3][2]), int(doc[4][2]),
                           json_loads_str(doc[5][2]))

NoFiles == [txt |-> << >>, json |-> << >>]

\* ------------------------------------------------------- client objects
ClientIds == 1 .. MaxClients
NoObject ==
    [state |-> "none", kind |-> "None", port |-> 0, events |-> 0,
     on_status |-> FALSE, on_connection |-> FALSE]

\* a new app: the panel shows the default configuration, no client is set,
\* the connect screen is shown and the status bar says Welcome
ClientFrameInit ==
    /\ connection_panel = PanelDefaults
    /\ _client = [kind |-> "None"]
    /\ clients = [c \in ClientIds |-> NoObject]
    /\ tasks = {}
    /\ _sm = "connect"
    /\ content = 0
    /\ feedback = 0
    /\ failed = {}
    /\ config = PanelConfig
    /\ config_file = NoFiles

\* ------------------------------------------------------------ Game state
self ==
    [board |-> board, players |-> players, x_turn |-> x_turn,
     in_progress |-> in_progress, outcome |-> outcome]

SetGame(g) ==
    /\ board' = g.board
    /\ players' = g.players
    /\ x_turn' = g.x_turn
    /\ in_progress' = g.in_progress
    /\ outcome' = g.outcome

\* Game.__init__: texts are modelled as tuples of their parts
GameInit(data) ==
    [board |-> data.board, players |-> data.players, x_turn |-> data.x_turn,
     in_progress |-> data.in_progress,
     outcome |-> IF data.in_progress THEN <<"In progress.">>
                 ELSE <<"Waiting for players.">>]

InSeq(x, s) == \E i \in 1 .. Len(s) : s[i] = x
Remove(x, s) == SelectSeq(s, LAMBDA y : y # x)
Seated(g) == SubSeq(g.players, 1, IF Len(g.players) < 2 THEN Len(g.players) ELSE 2)
Spectators(g) == SubSeq(g.players, 3, Len(g.players))

persistent(g) == g.in_progress /\ \E i \in 0 .. 8 : g.board[i] # ""

user_joined(g, player) ==
    LET ps == IF InSeq(player, g.players) THEN g.players
              ELSE Append(g.players, player)
    IN  IF Len(ps) >= 2
        THEN [g EXCEPT !.players = ps, !.in_progress = TRUE,
                       !.outcome = <<"In progress.">>]
        ELSE [g EXCEPT !.players = ps]

\* user_left that removes a seated player as well
user_left_any(g, player) ==
    IF InSeq(player, g.players)
    THEN [g EXCEPT !.players = Remove(player, g.players)]
    ELSE g

user_left(g, player) ==
    IF InSeq(player, Spectators(g))
    THEN [g EXCEPT !.players = Remove(player, g.players)]
    ELSE g

\* hash(tuple(str(board), str(players), str(x_turn))): an opaque digest of
\* exactly these three fields
_state_hash(g) == <<"hash", g.board, g.players, g.x_turn>>

_current_username(g) ==
    IF ~g.in_progress THEN ""
    ELSE g.players[(IF g.x_turn THEN 1 ELSE 0) + 1]

_mark_to_username(g, mark) == g.players[(IF mark = "O" THEN 0 ELSE 1) + 1]

_username_to_mark(g, username) == IF username = g.players[1] THEN "O" ELSE "X"

LineWon(b, l) ==
    /\ b[WINNING_LINES[l][1]] # ""
    /\ b[WINNING_LINES[l][1]] = b[WINNING_LINES[l][2]]
    /\ b[WINNING_LINES[l][2]] = b[WINNING_LINES[l][3]]

_check_progress(g) ==
    IF \E l \in 1 .. Len(WINNING_LINES) : LineWon(g.board, l)
    THEN LET l == CHOOSE k \in 1 .. Len(WINNING_LINES) :
                    /\ LineWon(g.board, k)
                    /\ \A j \in 1 .. k - 1 : ~LineWon(g.board, j)
             mark == g.board[WINNING_LINES[l][1]]
         IN  [g EXCEPT !.in_progress = FALSE,
                       !.outcome = <<_mark_to_username(g, mark), " playing as ",
                                     mark, " wins!">>]
    ELSE IF \A i \in 0 .. 8 : g.board[i] # ""
         THEN [g EXCEPT !.in_progress = FALSE, !.outcome = <<"Draw.">>]
         ELSE g

_get_user_info(g, username) ==
    IF ~g.in_progress THEN g.outcome
    ELSE IF ~InSeq(username, Seated(g))
         THEN g.outcome \o <<"\nSpectating ", _current_username(g), "'s turn as ",
                             _username_to_mark(g, _current_username(g))>>
         ELSE <<IF username = _current_username(g) THEN "Your turn"
                ELSE "Awaiting turn",
                ", playing as: ", _username_to_mark(g, username)>>

\* dict.get and Python truthiness of a fingerprint value
Get(d, k) == IF k \in DOMAIN d THEN d[k] ELSE None
Falsy(v) == v \in {None, EmptyStr}

Response(message, payload, status) ==
    [message |-> message, payload |-> payload, status |-> status]

\* the full snapshot of check_update for a user
Snapshot(g, username) ==
    [state_hash |-> _state_hash(g),
     players |-> g.players,
     board |-> g.board,
     your_turn |-> (username = _current_username(g)),
     info |-> _get_user_info(g, username)]

\* check_update that always sends the full snapshot
Game_check_update_always_full(g, username, client_hash) ==
    Response("Updated state.", Snapshot(g, username), STATUS_OK)

\* Game.check_update: the reply (it does not change the game)
Game_check_update(g, username, client_hash) ==
    IF client_hash = _state_hash(g)
    THEN Response("Up to date.", [state_hash |-> _state_hash(g)], STATUS_OK)
    ELSE Response("Updated state.", Snapshot(g, username), STATUS_OK)

\* Game.play_square: the reply and the game after it
Game_play_square(g, username, square) ==
    IF username # _current_username(g)
    THEN [resp |-> Response("Not your turn.", NoPayload, STATUS_UNEXPECTED), g |-> g]
    ELSE IF g.board[square] # ""
    THEN [resp |-> Response("Square is already marked.", NoPayload, STATUS_UNEXPECTED),
          g |-> g]
    ELSE [resp |-> Response("Marked square.", NoPayload, STATUS_OK),
          g |-> _check_progress(
                   [g EXCEPT !.board[square] = _username_to_mark(g, username),
                             !.x_turn = ~g.x_turn])]


handle_packet(g, username, packet) ==
    IF packet.message = "check_update"
    THEN [resp |-> Game_check_update(g, username, Get(packet.payload, "state_hash")), g |-> g]
    ELSE IF packet.message = "play_square"
    THEN Game_play_square(g, username, packet.payload.square)
    ELSE [resp |-> Response("No such command.", NoPayload, STATUS_OK), g |-> g]

\* ---------------------------------------------------------------- server
\* The server routes a packet of a user: lobby commands join and leave the
\* game, every other packet goes to the game of the user, and a user who is
\* in no game gets a rejection with an empty payload.
ServerReply(g, users, username, packet) ==
    IF packet.message = "join_game"
    THEN IF username \in users
         THEN [resp |-> Response("Already in game.", NoPayload, STATUS_UNEXPECTED),
               g |-> g, users |-> users]
         ELSE [resp |-> Response("Joined game.", NoPayload, STATUS_OK),
               g |-> user_joined(g, username), users |-> users \cup {username}]
    ELSE IF packet.message = "leave_game"
    THEN IF username \in users
         THEN [resp |-> Response("Left game.", NoPayload, STATUS_OK),
               g |-> user_left(g, username), users |-> users \ {username}]
         ELSE [resp |-> Response("Not in game.", NoPayload, STATUS_UNEXPECTED),
               g |-> g, users |-> users]
    ELSE IF username \in users
    THEN [resp |-> handle_packet(g, username, packet).resp,
          g |-> handle_packet(g, username, packet).g, users |-> users]
    ELSE [resp |-> Response("Not in game.", NoPayload, STATUS_UNEXPECTED),
          g |-> g, users |-> users]

\* ---------------------------------------------------------------- client
Packet(message, payload, callback, origin) ==
    [message |-> message, payload |-> payload, callback |-> callback,
     origin |-> origin]

\* BaseClient.send: do_next puts the packet at the front of the queue
send(q, packet, do_next) ==
    IF do_next THEN <<packet>> \o q ELSE Append(q, packet)

\* check_update that does not pass its do_next on to send
Client_check_update_no_priority(q, gs, do_next, origin) ==
    send(q,
         Packet("check_update", [state_hash |-> Get(gs, "state_hash")],
                "_apply_update", origin),
         FALSE)

\* Client.check_update: the queue after it
Client_check_update(q, gs, do_next, origin) ==
    send(q,
         Packet("check_update", [state_hash |-> Get(gs, "state_hash")],
                "_apply_update", origin),
         do_next)

\* queue_update whose check_update keeps the default do_next
queue_update_check_first(q, gs, packet) ==
    Client_check_update(send(q, packet, FALSE), gs, TRUE, "queue_update")

\* Client.queue_update: the queue after it
queue_update(q, gs, packet) ==
    Client_check_update(send(q, packet, FALSE), gs, FALSE, "queue_update")

\* _apply_update without its early return on an equal hash
_apply_update_unconditional(gs, resp, hook) ==
    [game_state |-> resp.payload,
     fired |-> hook,
     warned |-> Falsy(Get(resp.payload, "state_hash")),
     branch |-> "new"]

\* _apply_update that patches the cache field by field
_apply_update_merge(gs, resp, hook) ==
    IF Get(resp.payload, "state_hash") = Get(gs, "state_hash")
    THEN [game_state |-> gs, fired |-> FALSE, warned |-> FALSE, branch |-> "same"]
    ELSE [game_state |->
              [k \in (DOMAIN gs) \cup (DOMAIN resp.payload) |->
                  IF k \in DOMAIN resp.payload THEN resp.payload[k] ELSE gs[k]],
          fired |-> hook,
          warned |-> Falsy(Get(resp.payload, "state_hash")),
          branch |-> "new"]

\* Client._apply_update: the cache after it, whether on_game_state is
\* invoked and whether the missing hash is logged
_apply_update(gs, resp, hook) ==
    IF Get(resp.payload, "state_hash") = Get(gs, "state_hash")
    THEN [game_state |-> gs, fired |-> FALSE, warned |-> FALSE, branch |-> "same"]
    ELSE [game_state |-> resp.payload,
          fired |-> hook,
          warned |-> Falsy(Get(resp.payload, "state_hash")),
          branch |-> "new"]

\* the last step: for a response applied by _apply_update its status and
\* what _apply_update did, for every other step Other
Other ==
    [op |-> "other", status |-> -1, branch |-> "-", fired |-> FALSE, warned |-> FALSE]


\* ------------------------------------------------------------------ Init
\* The server has loaded the saved game and the opponent is in it; the
\* client has been constructed and async_connect has not been called.
Init ==
    /\ board = GameInit(SAVED_DATA).board
    /\ players = GameInit(SAVED_DATA).players
    /\ x_turn = GameInit(SAVED_DATA).x_turn
    /\ in_progress = GameInit(SAVED_DATA).in_progress
    /\ outcome = GameInit(SAVED_DATA).outcome
    /\ in_game = {Opponent}
    /\ game_state = [state_hash |-> EmptyStr]
    /\ on_game_state = FALSE
    /\ connected = FALSE
    /\ game = FALSE
    /\ queue = << >>
    /\ in_flight = << >>
    /\ response = << >>
    /\ pc = "new"
    /\ heartbeat = "none"
    /\ last = Other
    /\ bot_thinking = TRUE
    /\ reported = None
    /\ ClientFrameInit

\* --------------------------------------------------- connection lifecycle
\* async_connect up to its await: the heartbeat task is created first
AsyncConnect ==
    /\ pc = "new"
    /\ heartbeat' = "running"
    /\ pc' = "connecting"
    /\ last' = Other
    /\ UNCHANGED <<gvars, in_game, cvars, dvars>>
    /\ UNCHANGED tvars
    /\ UNCHANGED avars

\* the awaited connect succeeds in its handshake
Connected ==
    /\ pc = "connecting"
    /\ connected' = TRUE
    /\ pc' = "connected"
    /\ last' = Other
    /\ UNCHANGED <<gvars, in_game, game_state, on_game_state, game, dvars, heartbeat>>
    /\ UNCHANGED tvars
    /\ UNCHANGED avars

\* a close that leaves the packet in flight and its response pending
Close_keeps_pending ==
    /\ pc \in {"connecting", "connected"}
    /\ connected' = FALSE
    /\ game' = FALSE
    /\ queue' = << >>
    /\ in_game' = in_game \ {ClientUser}
    /\ SetGame(IF ClientUser \in in_game THEN user_left(self, ClientUser) ELSE self)
    /\ pc' = "closing"
    /\ last' = Other
    /\ UNCHANGED <<game_state, on_game_state, heartbeat, in_flight, response>>
    /\ UNCHANGED tvars
    /\ UNCHANGED avars

\* close(), a dropped connection or a failed handshake: the connection is
\* gone, the queue is flushed and the server drops the user from its game
Close ==
    /\ pc \in {"connecting", "connected"}
    /\ connected' = FALSE
    /\ game' = FALSE
    /\ queue' = << >>
    /\ in_flight' = << >>
    /\ response' = << >>
    /\ in_game' = in_game \ {ClientUser}
    /\ SetGame(IF ClientUser \in in_game THEN user_left(self, ClientUser) ELSE self)
    /\ pc' = "closing"
    /\ last' = Other
    /\ UNCHANGED <<game_state, on_game_state, heartbeat>>
    /\ UNCHANGED tvars
    /\ UNCHANGED avars

\* the awaited connect returns and async_connect runs to its end
ConnectReturns ==
    /\ pc = "closing"
    /\ heartbeat' = "cancelled"
    /\ pc' = "done"
    /\ last' = Other
    /\ UNCHANGED <<gvars, in_game, cvars, dvars>>
    /\ UNCHANGED tvars
    /\ UNCHANGED avars

\* the await raises (an error of the connect, or the cancellation of the
\* task that runs async_connect): the rest of async_connect is skipped
ConnectRaises ==
    /\ pc \in {"connecting", "connected", "closing"}
    /\ connected' = FALSE
    /\ game' = FALSE
    /\ queue' = << >>
    /\ in_flight' = << >>
    /\ response' = << >>
    /\ in_game' = in_game \ {ClientUser}
    /\ SetGame(IF ClientUser \in in_game THEN user_left(self, ClientUser) ELSE self)
    /\ pc' = "done"
    /\ last' = Other
    /\ UNCHANGED <<game_state, on_game_state, heartbeat>>
    /\ UNCHANGED tvars
    /\ UNCHANGED avars

\* a round of the _heartbeat loop without the test of connected and game
Heartbeat_unguarded ==
    /\ heartbeat = "running"
    /\ Len(queue) < MaxQueue
    /\ queue' = Client_check_update(queue, game_state, TRUE, "heartbeat")
    /\ last' = Other
    /\ UNCHANGED <<gvars, in_game, cvars, in_flight, response, pc, heartbeat>>
    /\ UNCHANGED tvars
    /\ UNCHANGED avars

\* one round of the _heartbeat loop after its sleep
Heartbeat ==
    /\ heartbeat = "running"
    /\ IF connected /\ game
       THEN /\ Len(queue) < MaxQueue
            /\ queue' = Client_check_update(queue, game_state, TRUE, "heartbeat")
       ELSE queue' = queue
    /\ last' = Other
    /\ UNCHANGED <<gvars, in_game, cvars, in_flight, response, pc, heartbeat>>
    /\ UNCHANGED tvars
    /\ UNCHANGED avars


\* ------------------------------------------------------- user of the client
\* ServerFrame._join_game
JoinGame ==
    /\ connected /\ ~game
    /\ Len(queue) < MaxQueue
    /\ queue' = send(queue, Packet("join_game", NoPayload, "None", "user"), FALSE)
    /\ last' = Other
    /\ UNCHANGED <<gvars, in_game, cvars, in_flight, response, pc, heartbeat>>
    /\ UNCHANGED tvars
    /\ UNCHANGED avars

\* GameFrame._leave_game
LeaveGame ==
    /\ connected /\ game
    /\ Len(queue) < MaxQueue
    /\ queue' = send(queue, Packet("leave_game", NoPayload, "None", "user"), FALSE)
    /\ last' = Other
    /\ UNCHANGED <<gvars, in_game, cvars, in_flight, response, pc, heartbeat>>
    /\ UNCHANGED tvars
    /\ UNCHANGED avars

\* GameFrame._play_square
PlaySquare(square) ==
    /\ connected /\ game
    /\ Len(queue) < MaxQueue
    /\ queue' = send(queue,
                     Packet("play_square", [square |-> square], "None", "user"),
                     FALSE)
    /\ last' = Other
    /\ UNCHANGED <<gvars, in_game, cvars, in_flight, response, pc, heartbeat>>
    /\ UNCHANGED tvars
    /\ UNCHANGED avars

\* Client.queue_update with a play_square packet
QueueUpdate(square) ==
    /\ connected /\ game
    /\ Len(queue) + 2 <= MaxQueue
    /\ queue' = queue_update(queue, game_state,
                     Packet("play_square", [square |-> square], "None", "user"))
    /\ last' = Other
    /\ UNCHANGED <<gvars, in_game, cvars, in_flight, response, pc, heartbeat>>
    /\ UNCHANGED tvars
    /\ UNCHANGED avars

\* ------------------------------------------------------------ dispatcher
\* a dispatcher that transmits the head while a packet is still in flight
Transmit_pipelined ==
    /\ connected
    /\ queue # << >>
    /\ in_flight' = in_flight \o <<Head(queue)>>
    /\ queue' = Tail(queue)
    /\ last' = Other
    /\ UNCHANGED <<gvars, in_game, cvars, response, pc, heartbeat>>
    /\ UNCHANGED tvars
    /\ UNCHANGED avars

\* the next queued packet is transmitted once nothing is in flight
Transmit ==
    /\ connected
    /\ in_flight = << >>
    /\ queue # << >>
    /\ in_flight' = <<Head(queue)>>
    /\ queue' = Tail(queue)
    /\ last' = Other
    /\ UNCHANGED <<gvars, in_game, cvars, response, pc, heartbeat>>
    /\ UNCHANGED tvars
    /\ UNCHANGED avars

\* the server handles the packet in flight and answers it
ServerHandle ==
    /\ in_flight # << >>
    /\ response = << >>
    /\ LET r == ServerReply(self, in_game, ClientUser, in_flight[1])
       IN  /\ SetGame(r.g)
           /\ in_game' = r.users
           /\ response' = <<r.resp>>
    /\ last' = Other
    /\ UNCHANGED <<cvars, queue, in_flight, pc, heartbeat>>
    /\ UNCHANGED tvars
    /\ UNCHANGED avars

\* the response arrives: the client notes a joined or left game (on_game
\* builds the GameFrame, which registers on_game_state and calls
\* check_update) and invokes the callback of the packet
Deliver ==
    /\ response # << >>
    /\ LET pkt == in_flight[1]
           resp == response[1]
           r == _apply_update(game_state, resp, on_game_state)
       IN  IF pkt.callback = "_apply_update"
           THEN /\ game_state' = r.game_state
                /\ last' = [op |-> "_apply_update", status |-> resp.status,
                            branch |-> r.branch, fired |-> r.fired,
                            warned |-> r.warned]
                /\ UNCHANGED <<on_game_state, game, queue>>
           ELSE IF pkt.message = "join_game" /\ resp.status = STATUS_OK
           THEN /\ game' = TRUE
                /\ on_game_state' = TRUE
                /\ queue' = Client_check_update(queue, game_state, TRUE, "frame")
                /\ last' = Other
                /\ UNCHANGED game_state
           ELSE IF pkt.message = "leave_game" /\ resp.status = STATUS_OK
           THEN /\ game' = FALSE
                /\ last' = Other
                /\ UNCHANGED <<game_state, on_game_state, queue>>
           ELSE /\ last' = Other
                /\ UNCHANGED <<game_state, on_game_state, game, queue>>
    /\ in_flight' = << >>
    /\ response' = << >>
    /\ UNCHANGED <<gvars, in_game, connected, pc, heartbeat>>
    /\ UNCHANGED tvars
    /\ UNCHANGED avars

\* ------------------------------------------------------------ other users
OtherJoins(u) ==
    /\ u \notin in_game
    /\ in_game' = in_game \cup {u}
    /\ SetGame(user_joined(self, u))
    /\ last' = Other
    /\ UNCHANGED <<cvars, dvars, pc, heartbeat>>
    /\ UNCHANGED tvars
    /\ UNCHANGED avars

OtherLeaves(u) ==
    /\ u \in in_game
    /\ in_game' = in_game \ {u}
    /\ SetGame(user_left(self, u))
    /\ last' = Other
    /\ UNCHANGED <<cvars, dvars, pc, heartbeat>>
    /\ UNCHANGED tvars
    /\ UNCHANGED avars

OtherPlays(u, square) ==
    /\ u \in in_game
    /\ SetGame(Game_play_square(self, u, square).g)
    /\ last' = Other
    /\ UNCHANGED <<in_game, cvars, dvars, pc, heartbeat>>
    /\ UNCHANGED tvars
    /\ UNCHANGED avars

Next ==
    \/ AsyncConnect
    \/ Connected
    \/ Close
    \/ ConnectReturns
    \/ ConnectRaises
    \/ Heartbeat
    \/ JoinGame
    \/ LeaveGame
    \/ \E sq \in Squares : PlaySquare(sq)
    \/ \E sq \in Squares : QueueUpdate(sq)
    \/ Transmit
    \/ ServerHandle
    \/ Deliver
    \/ \E u \in Visitors : OtherJoins(u)
    \/ \E u \in Visitors : OtherLeaves(u)
    \/ \E u \in OtherUsers, sq \in Squares : OtherPlays(u, sq)

Spec == Init /\ [][Next]_vars


\* the liveness specification: the dispatcher, the server and the event loop
\* keep answering, and the heartbeat loop runs a round every
\* HEARTBEAT_INTERVAL whatever the queue holds (strong fairness: the bound
\* MaxQueue disables the round only while the queue is full)
FairSpec ==
    /\ Spec
    /\ SF_vars(Heartbeat)
    /\ WF_vars(Transmit)
    /\ WF_vars(ServerHandle)
    /\ WF_vars(Deliver)

\* --------------------------------------- the tic-tac-toe game with its bot
\* src/tictactoe/game.py: the game of src/logic/game.py with a single-player
\* bot that moves inside check_update, and a shuffle of the two seats when
\* the game starts.
BOT_NAME == "Tictactoe Bot"
TttUsers == {"a", "b"}              \* the users of the tic-tac-toe game
AllSquares == 0 .. 8

tself ==
    [board |-> board, players |-> players, x_turn |-> x_turn,
     in_progress |-> in_progress, outcome |-> outcome,
     bot_thinking |-> bot_thinking]

SetTtt(g) ==
    /\ SetGame(g)
    /\ bot_thinking' = g.bot_thinking

\* Game.__init__: _next_bot_turn = arrow.now(), so the bot is thinking
Ttt_GameInit(data) ==
    [board |-> data.board, players |-> data.players, x_turn |-> data.x_turn,
     in_progress |-> data.in_progress,
     outcome |-> IF data.in_progress THEN <<"In progress.">>
                 ELSE <<"Waiting for players.">>,
     bot_thinking |-> TRUE]

Ttt_persistent(g) ==
    /\ g.in_progress
    /\ \E i \in AllSquares : g.board[i] # ""
    /\ ~InSeq(BOT_NAME, g.players)

\* the Python list self.board, cell 0 first
BoardList(b) == [i \in 1 .. 9 |-> b[i - 1]]

\* get_save_string that saves a game as not in progress
Ttt_get_save_string_not_started(g) ==
    [board |-> json_dumps_list(BoardList(g.board)),
     players |-> json_dumps_list(g.players),
     x_turn |-> json_dumps_bool(g.x_turn),
     in_progress |-> json_dumps_bool(FALSE)]

\* Game.get_save_string
Ttt_get_save_string(g) ==
    [board |-> json_dumps_list(BoardList(g.board)),
     players |-> json_dumps_list(g.players),
     x_turn |-> json_dumps_bool(g.x_turn),
     in_progress |-> json_dumps_bool(g.in_progress)]

\* Game(save_string=...): json.loads of the save string, then __init__
Ttt_Game(save_string) ==
    Ttt_GameInit(
        [board |-> [i \in AllSquares |->
                       json_loads_list(save_string.board)[i + 1]],
         players |-> json_loads_list(save_string.players),
         x_turn |-> json_loads_bool(save_string.x_turn),
         in_progress |-> json_loads_bool(save_string.in_progress)])

\* Game.user_joined: random.shuffle of two players either swaps them or not
Ttt_user_joined(g, player, swap) ==
    LET ps == IF InSeq(player, g.players) THEN g.players
              ELSE Append(g.players, player)
    IN  IF Len(ps) = 2
        THEN [g EXCEPT !.players = IF swap THEN <<ps[2], ps[1]>> ELSE ps,
                       !.in_progress = TRUE,
                       !.outcome = <<"In progress.">>]
        ELSE [g EXCEPT !.players = ps]

\* Game._winning_line: the first winning line of a board, or None
_winning_line(b) ==
    IF \E l \in 1 .. Len(WINNING_LINES) : LineWon(b, l)
    THEN WINNING_LINES[CHOOSE k \in 1 .. Len(WINNING_LINES) :
                          /\ LineWon(b, k)
                          /\ \A j \in 1 .. k - 1 : ~LineWon(b, j)]
    ELSE None

\* _do_play_square that leaves the turn with the mover
_do_play_square_same_turn(g, square, mark) ==
    [_check_progress([g EXCEPT !.board[square] = mark])
        EXCEPT !.bot_thinking = TRUE]

\* Game._do_play_square
_do_play_square(g, square, mark) ==
    [_check_progress([g EXCEPT !.board[square] = mark, !.x_turn = ~g.x_turn])
        EXCEPT !.bot_thinking = TRUE]

\* the squares _handle_bot may play, whatever the shuffle of the empty
\* squares: a winning square if there is one, else a square that stops a
\* win of the enemy if there is one, else any empty square
BotSquares(g) ==
    LET my_mark == _username_to_mark(g, BOT_NAME)
        bot_idx == IF g.players[1] = BOT_NAME THEN 0 ELSE 1
        enemy_mark == _username_to_mark(g, g.players[(1 - bot_idx) + 1])
        empty_squares == {s \in AllSquares : g.board[s] = ""}
        wins == {s \in empty_squares :
                    _winning_line([g.board EXCEPT ![s] = my_mark]) # None}
        threats == {s \in empty_squares :
                       _winning_line([g.board EXCEPT ![s] = enemy_mark]) # None}
    IN  IF wins # {} THEN wins ELSE IF threats # {} THEN threats ELSE empty_squares

\* Game._handle_bot, playing the square s of BotSquares
_handle_bot(g, s) ==
    IF _current_username(g) # BOT_NAME THEN g
    ELSE IF g.bot_thinking THEN g
    ELSE _do_play_square(g, s, _username_to_mark(g, BOT_NAME))

Ttt_Snapshot(g, username) ==
    [state_hash |-> _state_hash(g),
     players |-> g.players,
     board |-> g.board,
     your_turn |-> (username = _current_username(g)),
     info |-> _get_user_info(g, username),
     winning_line |-> _winning_line(g.board)]

\* check_update that computes the fingerprint before the bot moves
Ttt_check_update_hash_first(g, username, client_hash, s) ==
    LET g1 == _handle_bot(g, s)
    IN  [resp |-> IF client_hash = _state_hash(g)
                  THEN Response("Up to date.", [state_hash |-> _state_hash(g)],
                                STATUS_OK)
                  ELSE Response("Updated state.",
                                [Ttt_Snapshot(g1, username)
                                     EXCEPT !.state_hash = _state_hash(g)],
                                STATUS_OK),
         g |-> g1]

\* Game.check_update: the bot moves first, then the reply
Ttt_check_update(g, username, client_hash, s) ==
    LET g1 == _handle_bot(g, s)
    IN  [resp |-> IF client_hash = _state_hash(g1)
                  THEN Response("Up to date.", [state_hash |-> _state_hash(g1)],
                                STATUS_OK)
                  ELSE Response("Updated state.", Ttt_Snapshot(g1, username),
                                STATUS_OK),
         g |-> g1]

\* Game.set_single_player
Ttt_set_single_player(g, swap) ==
    IF Len(g.players) >= 2
    THEN [resp |-> Response("Game has already started.", NoPayload,
                            STATUS_UNEXPECTED),
          g |-> g]
    ELSE [resp |-> Response("Started single player mode.", NoPayload, STATUS_OK),
          g |-> [Ttt_user_joined(g, BOT_NAME, swap) EXCEPT !.bot_thinking = TRUE]]

\* self.board[square] of the list of nine cells: Python counts a negative
\* index from the end of the list and raises IndexError outside -9 .. 8
SquareInputs == AllSquares \cup {-1, 9}     \* the squares a packet may name
InList(square) == square \in -9 .. 8
Cell(square) == IF square < 0 THEN square + 9 ELSE square
Raised(exception) == [raised |-> exception]

\* play_square that tests for a seated player, not for the current player
Ttt_play_square_any_player(g, username, square) ==
    IF ~InSeq(username, Seated(g))
    THEN [resp |-> Response("Not your turn.", NoPayload, STATUS_UNEXPECTED), g |-> g]
    ELSE IF ~InList(square)
    THEN [resp |-> Raised("IndexError"), g |-> g]
    ELSE IF g.board[Cell(square)] # ""
    THEN [resp |-> Response("Square is already marked.", NoPayload,
                            STATUS_UNEXPECTED),
          g |-> g]
    ELSE [resp |-> Response("Marked square.", NoPayload, STATUS_OK),
          g |-> _do_play_square(g, Cell(square), _username_to_mark(g, username))]

\* Game.play_square
Ttt_play_square(g, username, square) ==
    IF username # _current_username(g) \/ _current_username(g) = BOT_NAME
    THEN [resp |-> Response("Not your turn.", NoPayload, STATUS_UNEXPECTED), g |-> g]
    ELSE IF ~InList(square)
    THEN [resp |-> Raised("IndexError"), g |-> g]
    ELSE IF g.board[Cell(square)] # ""
    THEN [resp |-> Response("Square is already marked.", NoPayload,
                            STATUS_UNEXPECTED),
          g |-> g]
    ELSE [resp |-> Response("Marked square.", NoPayload, STATUS_OK),
          g |-> _do_play_square(g, Cell(square), _username_to_mark(g, username))]

\* a new game: no player, a blank board; no client of this model takes part
TttInit ==
    /\ board = Ttt_GameInit(BLANK_DATA).board
    /\ players = Ttt_GameInit(BLANK_DATA).players
    /\ x_turn = Ttt_GameInit(BLANK_DATA).x_turn
    /\ in_progress = Ttt_GameInit(BLANK_DATA).in_progress
    /\ outcome = Ttt_GameInit(BLANK_DATA).outcome
    /\ bot_thinking = Ttt_GameInit(BLANK_DATA).bot_thinking
    /\ in_game = {}
    /\ game_state = [state_hash |-> EmptyStr]
    /\ on_game_state = FALSE
    /\ connected = FALSE
    /\ game = FALSE
    /\ queue = << >>
    /\ in_flight = << >>
    /\ response = << >>
    /\ pc = "new"
    /\ heartbeat = "none"
    /\ last = Other
    /\ reported = None
    /\ ClientFrameInit

\* a user joins the game
TttJoin(u, swap) ==
    /\ u \notin in_game
    /\ in_game' = in_game \cup {u}
    /\ SetTtt(Ttt_user_joined(tself, u, swap))
    /\ reported' = None
    /\ last' = Other
    /\ UNCHANGED <<cvars, dvars, pc, heartbeat>>
    /\ UNCHANGED avars

\* a user leaves the game
TttLeave(u) ==
    /\ u \in in_game
    /\ in_game' = in_game \ {u}
    /\ SetTtt(user_left(tself, u))
    /\ reported' = None
    /\ last' = Other
    /\ UNCHANGED <<cvars, dvars, pc, heartbeat>>
    /\ UNCHANGED avars

\* a user in the game sends single_player
TttSinglePlayer(u, swap) ==
    /\ u \in in_game
    /\ SetTtt(Ttt_set_single_player(tself, swap).g)
    /\ reported' = None
    /\ last' = Other
    /\ UNCHANGED <<in_game, cvars, dvars, pc, heartbeat>>
    /\ UNCHANGED avars

\* a user in the game sends play_square
TttPlay(u, square) ==
    /\ u \in in_game
    /\ SetTtt(Ttt_play_square(tself, u, square).g)
    /\ reported' = None
    /\ last' = Other
    /\ UNCHANGED <<in_game, cvars, dvars, pc, heartbeat>>
    /\ UNCHANGED avars

\* a user in the game sends check_update, with the current fingerprint
\* (up_to_date) or with none; s is the square the bot plays if it moves
TttCheckUpdate(u, up_to_date) ==
    /\ u \in in_game
    /\ \E s \in (IF _current_username(tself) = BOT_NAME
                 THEN BotSquares(tself) ELSE {0}) :
          LET client_hash == IF up_to_date THEN _state_hash(tself) ELSE None
              r == Ttt_check_update(tself, u, client_hash, s)
          IN  /\ SetTtt(r.g)
              /\ reported' = r.resp.payload.state_hash
    /\ last' = Other
    /\ UNCHANGED <<in_game, cvars, dvars, pc, heartbeat>>
    /\ UNCHANGED avars

\* BOT_THINK_TIME passes
TttThinkTimeOver ==
    /\ bot_thinking
    /\ bot_thinking' = FALSE
    /\ last' = Other
    /\ UNCHANGED <<gvars, in_game, cvars, dvars, pc, heartbeat, reported>>
    /\ UNCHANGED avars

\* the two-player game: two users join, leave, play and poll
TttNext ==
    \/ \E u \in TttUsers, swap \in BOOLEAN : TttJoin(u, swap)
    \/ \E u \in TttUsers : TttLeave(u)
    \/ \E u \in TttUsers, sq \in SquareInputs : TttPlay(u, sq)
    \/ \E u \in TttUsers, up_to_date \in BOOLEAN : TttCheckUpdate(u, up_to_date)

TttSpec == TttInit /\ [][TttNext]_vars

\* the single-player game: one user joins, starts single-player mode and
\* plays against the bot
BotNext ==
    \/ \E swap \in BOOLEAN : TttJoin(ClientUser, swap)
    \/ TttLeave(ClientUser)
    \/ \E swap \in BOOLEAN : TttSinglePlayer(ClientUser, swap)
    \/ \E sq \in SquareInputs : TttPlay(ClientUser, sq)
    \/ \E up_to_date \in BOOLEAN : TttCheckUpdate(ClientUser, up_to_date)
    \/ TttThinkTimeOver

BotSpec == TttInit /\ [][BotNext]_vars

\* ------------------------------------------------- the connection panel
\* src/mousefox/app/connectpanel.py: the panel that creates the client of
\* the app from its input values, and the ClientFrame that owns the client.
\* client_class.remote(address, port, ...) / client_class.local(...)
Remote(port) == [kind |-> "remote", port |-> port]
Local == [kind |-> "local"]
NoClient == [kind |-> "None"]        \* self._client = None

\* a new app: the panel shows the default configuration, no client is set
AppInit ==
    /\ ClientFrameInit
    /\ board = GameInit(BLANK_DATA).board
    /\ players = GameInit(BLANK_DATA).players
    /\ x_turn = GameInit(BLANK_DATA).x_turn
    /\ in_progress = GameInit(BLANK_DATA).in_progress
    /\ outcome = GameInit(BLANK_DATA).outcome
    /\ in_game = {}
    /\ game_state = [state_hash |-> EmptyStr]
    /\ on_game_state = FALSE
    /\ connected = FALSE
    /\ game = FALSE
    /\ queue = << >>
    /\ in_flight = << >>
    /\ response = << >>
    /\ pc = "new"
    /\ heartbeat = "none"
    /\ last = Other
    /\ bot_thinking = TRUE
    /\ reported = None

\* the client object that client_class.remote / local returns
NewObject(client) ==
    [state |-> "created", kind |-> client.kind,
     port |-> IF client.kind = "remote" THEN client.port ELSE 0,
     events |-> 0, on_status |-> FALSE, on_connection |-> FALSE]

\* the reference to the client object c
Ref(c) ==
    (IF clients[c].kind = "remote" THEN Remote(clients[c].port) ELSE Local)
        @@ [id |-> c]

\* `client is self._client`
IsClient(c) == _client # NoClient /\ _client.id = c

\* the first unused client object
Fresh(c) ==
    /\ clients[c].state = "none"
    /\ \A d \in ClientIds : d < c => clients[d].state # "none"

\* the user sets the online switch, the advanced switch or the port number
SetOnline(value) ==
    /\ connection_panel' = [connection_panel EXCEPT !.online = value]
    /\ UNCHANGED <<gvars, in_game, cvars, dvars, pc, heartbeat, last, tvars,
                   _client, clients, tasks, _sm, content, feedback, failed,
                   config, config_file>>

SetAdvanced(value) ==
    /\ connection_panel' = [connection_panel EXCEPT !.advanced = value]
    /\ UNCHANGED <<gvars, in_game, cvars, dvars, pc, heartbeat, last, tvars,
                   _client, clients, tasks, _sm, content, feedback, failed,
                   config, config_file>>

SetPort(value) ==
    /\ connection_panel' = [connection_panel EXCEPT !.port = value]
    /\ UNCHANGED <<gvars, in_game, cvars, dvars, pc, heartbeat, last, tvars,
                   _client, clients, tasks, _sm, content, feedback, failed,
                   config, config_file>>

\* ConnectPanel._connect, on the connect screen, with ClientFrame._set_client
\* as on_client: the client is created, the config is saved and the task
\* _async_set_client(client) is created
PanelConnect(username) ==
    /\ _sm = "connect"
    /\ \E c \in ClientIds :
          /\ Fresh(c)
          /\ LET online == connection_panel.online
                 advanced == online /\ connection_panel.advanced
                 port == IF advanced THEN connection_panel.port ELSE DEFAULT_PORT
                 pubkey == PanelConfig.pubkey
                 client == IF online THEN Remote(port) ELSE Local
                 cfg == _ConnectionConfig(online, username, PanelConfig.address,
                                          port, pubkey)
             IN  /\ clients' = [clients EXCEPT ![c] = NewObject(client)]
                 /\ config' = cfg
                 /\ config_file' =
                        [config_file EXCEPT !.json = Panel_save_to_disk(cfg)]
                 /\ tasks' = tasks \cup {c}
    /\ UNCHANGED <<gvars, in_game, cvars, dvars, pc, heartbeat, last, tvars,
                   connection_panel, _client, _sm, content, feedback, failed>>

\* ClientFrame._async_set_client up to its await: the assertion, then the
\* client is set, shown and connecting
AsyncSetClient(c) ==
    /\ c \in tasks
    /\ tasks' = tasks \ {c}
    /\ IF _client # NoClient
       THEN /\ failed' = failed \cup {"not self._client"}
            /\ clients' = [clients EXCEPT ![c] = NoObject]
            /\ UNCHANGED <<_client, feedback, content>>
       ELSE /\ _client' = Ref(c)
            /\ feedback' = c
            /\ content' = c
            /\ clients' = [clients EXCEPT ![c].state = "connecting",
                                          ![c].on_status = TRUE,
                                          ![c].on_connection = TRUE]
            /\ UNCHANGED failed
    /\ UNCHANGED <<gvars, in_game, cvars, dvars, pc, heartbeat, last, tvars,
                   connection_panel, _sm, config, config_file>>

\* the handshake of a connecting client succeeds: on_status, then
\* on_connection(True), which is ClientFrame._on_client_status and
\* ClientFrame._on_client_connected
Handshake(c) ==
    /\ clients[c].state = "connecting"
    /\ clients' = [clients EXCEPT ![c].state = "connected",
                                  ![c].on_connection = FALSE]
    /\ IF IsClient(c)
       THEN /\ feedback' = c
            /\ _sm' = "user"
            /\ UNCHANGED failed
       ELSE /\ failed' = failed \cup {"client is self._client"}
            /\ UNCHANGED <<feedback, _sm>>
    /\ UNCHANGED <<gvars, in_game, cvars, dvars, pc, heartbeat, last, tvars,
                   connection_panel, _client, tasks, content, config,
                   config_file>>

\* the connection of a client ends: on_status, which is
\* ClientFrame._on_client_status
EndConnection(c) ==
    /\ clients[c].state \in {"connecting", "connected"}
    /\ clients' = [clients EXCEPT ![c].state = "ended"]
    /\ IF IsClient(c)
       THEN /\ feedback' = c
            /\ UNCHANGED failed
       ELSE /\ failed' = failed \cup {"client is self._client"}
            /\ UNCHANGED feedback
    /\ UNCHANGED <<gvars, in_game, cvars, dvars, pc, heartbeat, last, tvars,
                   connection_panel, _client, tasks, _sm, content, config,
                   config_file>>

\* a connect error or an I/O error of a client
ConnectionLost(c) ==
    /\ clients[c].state # "none"
    /\ EndConnection(c)

\* ClientFrame._disconnect: nothing without a client, else
\* self._client.disconnect()
FrameDisconnect ==
    /\ _client # NoClient
    /\ EndConnection(_client.id)

\* the rest of ClientFrame._async_set_client: async_connect of the client
\* has returned, the user frame and the client are dropped and the connect
\* screen is shown
AsyncSetClientReturns(c) ==
    /\ clients[c].state = "ended"
    /\ IsClient(c)
    /\ clients' = [clients EXCEPT ![c] = NoObject]
    /\ content' = 0
    /\ _client' = NoClient
    /\ _sm' = "connect"
    /\ UNCHANGED <<gvars, in_game, cvars, dvars, pc, heartbeat, last, tvars,
                   connection_panel, tasks, feedback, failed, config,
                   config_file>>

AppNext ==
    \/ \E value \in BOOLEAN : SetOnline(value)
    \/ \E value \in BOOLEAN : SetAdvanced(value)
    \/ \E value \in Ports : SetPort(value)
    \/ \E username \in Usernames : PanelConnect(username)
    \/ \E c \in ClientIds : AsyncSetClient(c)
    \/ \E c \in ClientIds : Handshake(c)
    \/ \E c \in ClientIds : ConnectionLost(c)
    \/ FrameDisconnect
    \/ \E c \in ClientIds : AsyncSetClientReturns(c)

AppSpec == AppInit /\ [][AppNext]_vars

\* ------------------------------------------------- the app of src/gui
\* src/gui/app.py and src/gui/connectframe.py: the app replaces its client
\* by closing the old one, and tells the events of an old client from
\* those of its client.

\* App._on_client_status without the test for an old client
App_on_client_status_unguarded(client) ==
    [feedback |-> client, warned |-> FALSE]

\* App._on_client_status: the status bar after a status event of client,
\* and whether "Old client event" is logged
App_on_client_status(client) ==
    IF ~IsClient(client)
    THEN [feedback |-> feedback, warned |-> TRUE]
    ELSE [feedback |-> client, warned |-> FALSE]

\* client objects that are closed or ended, have no event to deliver and
\* are referenced by nothing are gone
Collect(cs, refs) ==
    [c \in ClientIds |->
        IF /\ cs[c].state \in {"closed", "ended"}
           /\ cs[c].events = 0
           /\ c \notin refs
        THEN NoObject ELSE cs[c]]

\* client.close(): the connection, if any, is closed; the status event of
\* the transition is delivered at once (sync) or by the event loop later
Closed(cs, c, sync) ==
    IF cs[c].state \in {"connecting", "connected"}
    THEN [cs EXCEPT ![c].state = "closed",
                    ![c].events = IF sync THEN @ ELSE @ + 1]
    ELSE cs

\* ConnectionFrame._invoke_play_btn, on the connection screen: the port is
\* checked, the client is created and given to App.set_client, which
\* creates the task _async_set_client(client), and the config is saved
GuiPlay(online, username, port) ==
    /\ _sm = "connect"
    /\ \E c \in ClientIds :
          /\ Fresh(c)
          /\ IF ~(0 < port /\ port < 65536)
             THEN /\ feedback' = 0
                  /\ UNCHANGED <<clients, tasks, config, config_file>>
             ELSE LET client == IF online THEN Remote(port) ELSE Local
                      cfg == _ConnectionConfig(online, username, "localhost",
                                               port, "")
                  IN  /\ clients' = [clients EXCEPT ![c] = NewObject(client)]
                      /\ tasks' = tasks \cup {c}
                      /\ config' = cfg
                      /\ config_file' =
                             [config_file EXCEPT !.txt = Frame_save_to_disk(cfg)]
                      /\ UNCHANGED feedback
    /\ last' = Other
    /\ UNCHANGED <<gvars, in_game, cvars, dvars, pc, heartbeat, tvars,
                   connection_panel, _client, _sm, content, failed>>

\* App._async_set_client up to its await: the old client is closed, the
\* new client is set, its handlers are set and it is connecting
GuiAsyncSetClient(c, sync) ==
    /\ c \in tasks
    /\ tasks' = tasks \ {c}
    /\ LET closed == IF _client # NoClient
                     THEN Closed(clients, _client.id, sync) ELSE clients
           cs == [closed EXCEPT ![c].state = "connecting",
                                ![c].on_status = TRUE,
                                ![c].on_connection = TRUE]
       IN  clients' = Collect(cs, {c, content})
    /\ _client' = Ref(c)
    /\ feedback' = c
    /\ last' = Other
    /\ UNCHANGED <<gvars, in_game, cvars, dvars, pc, heartbeat, tvars,
                   connection_panel, _sm, content, failed, config, config_file>>

\* the handshake of a connecting client succeeds: on_status, which is
\* App._on_client_status, then on_connection, which is
\* App.show_server_screen(client)
GuiHandshake(c) ==
    /\ clients[c].state = "connecting"
    /\ clients' = [clients EXCEPT ![c].state = "connected",
                                  ![c].on_connection = FALSE]
    /\ feedback' = App_on_client_status(c).feedback
    /\ last' = [Other EXCEPT !.op = "_on_client_status",
                             !.warned = App_on_client_status(c).warned]
    /\ _sm' = "server"
    /\ content' = c
    /\ UNCHANGED <<gvars, in_game, cvars, dvars, pc, heartbeat, tvars,
                   connection_panel, _client, tasks, failed, config,
                   config_file>>

\* a connect error or an I/O error of a client: on_status, and
\* async_connect returns
GuiConnectionLost(c) ==
    /\ clients[c].state \in {"connecting", "connected"}
    /\ clients' = [clients EXCEPT ![c].state = "ended"]
    /\ feedback' = App_on_client_status(c).feedback
    /\ last' = [Other EXCEPT !.op = "_on_client_status",
                             !.warned = App_on_client_status(c).warned]
    /\ UNCHANGED <<gvars, in_game, cvars, dvars, pc, heartbeat, tvars,
                   connection_panel, _client, tasks, _sm, content, failed,
                   config, config_file>>

\* ServerFrame._disconnect: the client of the server frame is closed and
\* the connection screen is shown
GuiDisconnect(sync) ==
    /\ _sm = "server"
    /\ content # 0
    /\ clients' = Closed(clients, content, sync)
    /\ feedback' = IF sync /\ clients[content].state \in {"connecting", "connected"}
                   THEN App_on_client_status(content).feedback
                   ELSE feedback
    /\ _sm' = "connect"
    /\ last' = Other
    /\ UNCHANGED <<gvars, in_game, cvars, dvars, pc, heartbeat, tvars,
                   connection_panel, _client, tasks, content, failed, config,
                   config_file>>

\* the event loop delivers the status event of a closed client:
\* App._on_client_status
GuiStatus(c) ==
    /\ clients[c].events > 0
    /\ clients' = Collect([clients EXCEPT ![c].events = @ - 1],
                          {content} \cup (IF _client = NoClient THEN {}
                                          ELSE {_client.id}))
    /\ feedback' = App_on_client_status(c).feedback
    /\ last' = [Other EXCEPT !.op = "_on_client_status",
                             !.warned = App_on_client_status(c).warned]
    /\ UNCHANGED <<gvars, in_game, cvars, dvars, pc, heartbeat, tvars,
                   connection_panel, _client, tasks, _sm, content, failed,
                   config, config_file>>

GuiNext ==
    \/ \E online \in BOOLEAN, username \in Usernames, port \in Ports :
          GuiPlay(online, username, port)
    \/ \E c \in ClientIds, sync \in BOOLEAN : GuiAsyncSetClient(c, sync)
    \/ \E c \in ClientIds : GuiHandshake(c)
    \/ \E c \in ClientIds : GuiConnectionLost(c)
    \/ \E sync \in BOOLEAN : GuiDisconnect(sync)
    \/ \E c \in ClientIds : GuiStatus(c)

GuiSpec == AppInit /\ [][GuiNext]_vars

\* -------------------------------------------- the connection config files
\* _ConnectionConfig of src/mousefox/app/connectframe.py (a text file, as in
\* src/gui/connectframe.py) and of src/mousefox/app/connectpanel.py (a JSON
\* file): a config is built from the input values, saved and loaded.

\* _ConnectionConfig(online, username, address, port, pubkey) of the inputs
NewConfig(c) ==
    /\ config' = c
    /\ UNCHANGED <<gvars, in_game, cvars, dvars, pc, heartbeat, last, tvars,
                   connection_panel, _client, clients, tasks, _sm, content,
                   feedback, failed, config_file>>

FrameSaveToDisk ==
    /\ config_file' = [config_file EXCEPT !.txt = Frame_save_to_disk(config)]
    /\ UNCHANGED <<gvars, in_game, cvars, dvars, pc, heartbeat, last, tvars,
                   connection_panel, _client, clients, tasks, _sm, content,
                   feedback, failed, config>>

FrameLoadFromDisk ==
    /\ config' = Frame_load_from_disk(config_file.txt)
    /\ UNCHANGED <<gvars, in_game, cvars, dvars, pc, heartbeat, last, tvars,
                   connection_panel, _client, clients, tasks, _sm, content,
                   feedback, failed, config_file>>

PanelSaveToDisk ==
    /\ config_file' = [config_file EXCEPT !.json = Panel_save_to_disk(config)]
    /\ UNCHANGED <<gvars, in_game, cvars, dvars, pc, heartbeat, last, tvars,
                   connection_panel, _client, clients, tasks, _sm, content,
                   feedback, failed, config>>

PanelLoadFromDisk ==
    /\ config' = Panel_load_from_disk(config_file.json)
    /\ UNCHANGED <<gvars, in_game, cvars, dvars, pc, heartbeat, last, tvars,
                   connection_panel, _client, clients, tasks, _sm, content,
                   feedback, failed, config_file>>

ConfigNext ==
    \/ \E c \in Configs : NewConfig(c)
    \/ FrameSaveToDisk
    \/ FrameLoadFromDisk
    \/ PanelSaveToDisk
    \/ PanelLoadFromDisk

ConfigSpec == AppInit /\ [][ConfigNext]_vars

\* ---------------------------------------------------------------- claims
\* the step in which the response in transit is applied by _apply_update
Applying ==
    /\ response # << >>
    /\ in_flight # << >>
    /\ in_flight[1].callback = "_apply_update"
    /\ response' = << >>
    /\ last'.op = "_apply_update"

ResponseHash == Get(response[1].payload, "state_hash")
CachedHash == Get(game_state, "state_hash")

\* C1: applying a check_update response whose state_hash equals the cached
\* state_hash leaves game_state unmodified and does not invoke on_game_state.
C1_NoOpOnMatch ==
    [][(Applying /\ ResponseHash = CachedHash)
        => (game_state' = game_state /\ ~last'.fired)]_vars

\* C1 witness: a response with the cached, real fingerprint was applied to a
\* full cached snapshot while on_game_state was registered.
C1_Witness ==
    /\ last.op = "_apply_update"
    /\ last.branch = "same"
    /\ on_game_state
    /\ ~Falsy(CachedHash)
    /\ "board" \in DOMAIN game_state

\* a check_update packet still waiting whose hash is no longer the cached one
StaleCheckQueued ==
    \E i \in 1 .. Len(queue) :
        /\ queue[i].message = "check_update"
        /\ queue[i].payload.state_hash # CachedHash

\* C2: a response whose state_hash differs from the cached one replaces the
\* whole cache by its payload and invokes on_game_state; on_game_state is
\* invoked in exactly the steps that change the cache, each of which changes
\* the cached fingerprint (a repeated fingerprint never fires again).
C2_ReplaceAndNotifyOnce ==
    /\ [][(Applying /\ ResponseHash # CachedHash)
           => (game_state' = response[1].payload /\ last'.fired)]_vars
    /\ [][(game_state' # game_state) => last'.fired]_vars
    /\ [][(last'.fired /\ last' # last)
           => Get(game_state', "state_hash") # CachedHash]_vars
    /\ [][(last'.fired /\ last' = last) => game_state' = game_state]_vars

\* C2 witness: a full snapshot with a new fingerprint replaced the cache and
\* fired, while another check_update sent with the old hash is still queued.
C2_Witness ==
    /\ last.op = "_apply_update"
    /\ last.branch = "new"
    /\ last.fired
    /\ "board" \in DOMAIN game_state
    /\ StaleCheckQueued

\* C3: applying a response with a missing or falsy state_hash keeps the
\* previous cache and fires no notification.
C3_FalsyHashKeepsCache ==
    [][(Applying /\ Falsy(ResponseHash))
        => (game_state' = game_state /\ ~last'.fired)]_vars

HeartbeatsOutstanding ==
    Cardinality({i \in 1 .. Len(queue) : queue[i].origin = "heartbeat"})
    + (IF in_flight # << >> /\ in_flight[1].origin = "heartbeat" THEN 1 ELSE 0)

\* C4: at most one heartbeat check_update is outstanding (queued or in
\* flight) in every reachable state.
C4_OneHeartbeatOutstanding == HeartbeatsOutstanding <= 1

\* C5: a step of the server that keeps the fingerprint keeps the full
\* snapshot every user is sent.
C5_FingerprintSound ==
    [][\A u \in Users :
          (_state_hash(self') = _state_hash(self))
              => (Snapshot(self', u) = Snapshot(self, u))]_vars

\* the step in which the game answers a check_update of the client
AnswersCheckUpdate ==
    /\ response = << >>
    /\ response' # << >>
    /\ in_flight # << >>
    /\ in_flight[1].message = "check_update"
    /\ ClientUser \in in_game

FullKeys == {"state_hash", "players", "board", "your_turn", "info"}

\* C6: the reply of the game to check_update has status OK; for a client
\* hash equal to the current fingerprint its payload has the key state_hash
\* only, otherwise (None included) it is the full current snapshot, and in
\* both cases state_hash is the current fingerprint.
C6_ReplyShape ==
    [][AnswersCheckUpdate
        => LET r == response'[1]
               h == Get(in_flight[1].payload, "state_hash")
           IN  /\ r.status = STATUS_OK
               /\ r.payload.state_hash = _state_hash(self')
               /\ IF h = _state_hash(self')
                  THEN DOMAIN r.payload = {"state_hash"}
                  ELSE /\ DOMAIN r.payload = FullKeys
                       /\ r.payload.players = players'
                       /\ r.payload.board = board'
                       /\ r.payload.your_turn = (ClientUser = _current_username(self'))
                       /\ r.payload.info = _get_user_info(self', ClientUser)]_vars

\* C6 witness: the game answered an up-to-date check_update with the
\* fingerprint alone.
C6_Witness ==
    /\ response # << >>
    /\ in_flight[1].message = "check_update"
    /\ response[1].status = STATUS_OK
    /\ DOMAIN response[1].payload = {"state_hash"}

\* C7: if from some point on the client stays connected and in the game and
\* the game no longer changes, then eventually the cache equals the snapshot
\* the server sends that user, and stays equal.
C7_EventuallyConsistent ==
    (/\ <>[](connected /\ game /\ ClientUser \in in_game)
     /\ <>[][FALSE]_gvars)
        => <>[](game_state = Snapshot(self, ClientUser))

\* C8: game_state changes only in a step that applies a response of status
\* OK.
C8_OnlyOkResponsesMutate ==
    [][(game_state' # game_state)
        => (last'.op = "_apply_update" /\ last'.status = STATUS_OK)]_vars

\* C9: game_state always has the key state_hash.
C9_AlwaysHasStateHash == "state_hash" \in DOMAIN game_state

\* C10: once async_connect is over, its heartbeat task has been cancelled.
C10_HeartbeatCancelled == (pc = "done") => (heartbeat = "cancelled")

\* C11: a heartbeat check_update is added only in a state where the client is
\* connected and in a game; a round of the heartbeat loop in any other state
\* sends nothing and changes no client state.
C11_HeartbeatGuard ==
    /\ [][(HeartbeatsOutstanding' > HeartbeatsOutstanding)
           => (connected /\ game)]_vars
    /\ [][(Heartbeat /\ ~(connected /\ game))
           => UNCHANGED <<cvars, dvars>>]_vars

\* C11 witness: the loop is running and has sent a check_update that is still
\* outstanding, and the client, still connected, is in no game any more.
C11_Witness ==
    /\ heartbeat = "running"
    /\ connected
    /\ ~game
    /\ HeartbeatsOutstanding > 0

\* the awaited connect of async_connect has been driven to its handshake
ConnectDriven == pc \in {"connected", "closing", "done"}

\* C12 as stated: a heartbeat task exists only once the transport connect
\* has been driven.
C12_HeartbeatAfterConnect == (heartbeat # "none") => ConnectDriven

\* C12 amended: the heartbeat task exists from the first step of
\* async_connect on, before the awaited connect is established, and not
\* before async_connect is called; until the connect is established no
\* check_update of the heartbeat is outstanding.
C12_HeartbeatFromAsyncConnect ==
    /\ []((heartbeat = "none") <=> (pc = "new"))
    /\ []((pc \in {"new", "connecting"}) => (HeartbeatsOutstanding = 0))

\* C12 witness: the heartbeat task runs while the connect is still awaited
\* and not established.
C12_Witness ==
    /\ pc = "connecting"
    /\ heartbeat = "running"
    /\ ~connected

\* _handle_bot is about to move: the bot is the current player and its think
\* time is over
BotDue == _current_username(tself) = BOT_NAME /\ ~bot_thinking

\* C13 as stated: two consecutive check_update requests to the game with no
\* join, leave or game command between them report the same state_hash.
C13_SameHashTwice ==
    [][(reported # None /\ reported' # None) => reported' = reported]_vars

\* C13 amended: the fingerprint last reported stays the fingerprint of the
\* game while no join, leave or command intervenes, and two consecutive
\* check_update requests report the same state_hash unless the second one
\* finds the bot due to move and so plays the bot's move itself.
C13_SameHashUnlessBotMoves ==
    /\ [](reported # None => reported = _state_hash(tself))
    /\ [][(reported # None /\ reported' # None /\ ~BotDue)
           => reported' = reported]_vars

\* C13 witness: a check_update was answered in a single-player game with
\* marks on the board while the bot is the current player and still
\* thinking.
C13_Witness ==
    /\ reported # None
    /\ _current_username(tself) = BOT_NAME
    /\ bot_thinking
    /\ \E i \in AllSquares : board[i] # ""

\* q2 is q with packets added at its end / with one packet added at its front
Appended(q, q2) == Len(q2) > Len(q) /\ SubSeq(q2, 1, Len(q)) = q
Prepended(q, q2) == Len(q2) = Len(q) + 1 /\ Tail(q2) = q

\* the check_update packets of queue_update waiting in a queue
QueuedChecks(q) ==
    Cardinality({i \in 1 .. Len(q) : q[i].origin = "queue_update"})

\* C14: packets wait in send order and are answered from the head: the queue
\* changes only by a packet added at one end, by the transmission of its
\* head or by a flush; a packet sent without do_next is never put in front
\* of the waiting packets;
\* queue_update adds its command and then its check_update at the end, in
\* this order; and a response arrives only for the packet in flight.
C14_FifoResolution ==
    /\ [][(queue' # queue)
           => \/ queue' = << >>
              \/ queue # << >> /\ queue' = Tail(queue)
                 /\ in_flight' = <<Head(queue)>>
              \/ Appended(queue, queue')
              \/ Prepended(queue, queue')]_vars
    /\ [][(Prepended(queue, queue') /\ ~Appended(queue, queue'))
           => Head(queue').origin \notin {"user", "queue_update"}]_vars
    /\ [][(QueuedChecks(queue') > QueuedChecks(queue))
           => /\ Len(queue') = Len(queue) + 2
              /\ Appended(queue, queue')
              /\ queue'[Len(queue') - 1].message = "play_square"
              /\ queue'[Len(queue')].message = "check_update"
              /\ queue'[Len(queue')].origin = "queue_update"]_vars
    /\ [][(response = << >> /\ response' # << >>)
           => (in_flight # << >> /\ in_flight' = in_flight)]_vars

\* C14 witness: the command of queue_update has been transmitted and
\* answered while its check_update still waits in the queue.
C14_Witness ==
    /\ in_flight # << >>
    /\ in_flight[1].message = "play_square"
    /\ response # << >>
    /\ queue # << >>
    /\ queue[1].origin = "queue_update"

\* the check_update packets sent with the default do_next = True waiting in
\* a queue (those of the heartbeat and of the game frame)
DoNextChecks(q) ==
    Cardinality({i \in 1 .. Len(q) : q[i].origin \in {"heartbeat", "frame"}})

\* C15: a check_update sent with do_next = True is put at the front of the
\* queue, before every packet that waits there; a packet sent with
\* do_next = False is added behind all of them; and the packet transmitted
\* next is the one at the front.
C15_DoNextPriority ==
    /\ [][(DoNextChecks(queue') > DoNextChecks(queue))
           => /\ Prepended(queue, queue')
              /\ Head(queue').message = "check_update"
              /\ Head(queue').origin \in {"heartbeat", "frame"}]_vars
    /\ [][(Len(queue') > Len(queue) /\ DoNextChecks(queue') = DoNextChecks(queue))
           => Appended(queue, queue')]_vars
    /\ [][(in_flight' # in_flight /\ in_flight' # << >>)
           => (queue # << >> /\ in_flight' = <<Head(queue)>>)]_vars

\* C15 witness: a check_update of the heartbeat was put in front of a
\* command that was waiting, and has been transmitted and answered while
\* the command still waits.
C15_Witness ==
    /\ in_flight # << >>
    /\ in_flight[1].origin = "heartbeat"
    /\ response # << >>
    /\ queue # << >>
    /\ queue[1].origin = "user"

\* C16: at most one packet is in flight, and a packet is transmitted only
\* when no packet is in flight and no response waits to be delivered.
C16_OneInFlight ==
    /\ [](Len(in_flight) <= 1 /\ Len(response) <= 1)
    /\ [](response # << >> => in_flight # << >>)
    /\ [][(in_flight' # in_flight /\ in_flight' # << >>)
           => (in_flight = << >> /\ response = << >>)]_vars

\* C16 witness: a packet is in flight and answered while another waits.
C16_Witness ==
    /\ Len(in_flight) = 1
    /\ response # << >>
    /\ Len(queue) = MaxQueue

\* C17: a response is delivered at most once (its delivery leaves nothing
\* in flight); once the client is closed nothing is pending, and no step
\* changes game_state or invokes on_game_state.
C17_NoCallbackAfterClose ==
    /\ [][(response # << >> /\ response' # response)
           => (response' = << >> /\ in_flight' = << >>)]_vars
    /\ []((pc \in {"closing", "done"})
            => (queue = << >> /\ in_flight = << >> /\ response = << >>))
    /\ [][(pc \in {"closing", "done"})
           => (game_state' = game_state /\ last'.op # "_apply_update")]_vars

\* C17 witness: the client was closed while its cache held a snapshot that
\* is no longer the one the server would send, with on_game_state
\* registered.
C17_Witness ==
    /\ pc = "closing"
    /\ on_game_state
    /\ "board" \in DOMAIN game_state
    /\ game_state.state_hash # _state_hash(self)

\* C19: in every reachable state of the game, play_square of a user who is
\* not the current player (every user while the game is not in progress) is
\* answered with status UNEXPECTED and leaves the whole game, and with it
\* the fingerprint, unchanged.
C19_NotYourTurn ==
    \A u \in TttUsers, sq \in AllSquares :
        (u # _current_username(tself))
            => LET r == Ttt_play_square(tself, u, sq)
               IN  /\ r.resp.status = STATUS_UNEXPECTED
                   /\ r.g = tself
                   /\ _state_hash(r.g) = _state_hash(tself)

\* C19 witness: a game in progress with marks on the board and a user in
\* the game who is not the current player, while the square 0 is empty.
C19_Witness ==
    /\ in_progress
    /\ \E i \in AllSquares : board[i] # ""
    /\ board[0] = ""
    /\ \E u \in in_game : u # _current_username(tself)

\* C20: the client of the app, when it is a remote client, has a port in
\* 1 .. 65535.
C20_RemotePortInRange ==
    (_client.kind = "remote") => (_client.port \in 1 .. 65535)

\* C22: in every reachable state where in_progress is true the board holds
\* no completed winning line and has at least one empty square (a finished
\* game is not in progress again).
C22_InProgressMeansOpen ==
    in_progress => /\ _winning_line(board) = None
                   /\ \E i \in AllSquares : board[i] = ""

\* C23: once two players are seated, no step changes the order of the
\* first two entries of players.
C23_SeatsStable ==
    [][Len(players) >= 2
          => /\ Len(players') >= 2
             /\ players'[1] = players[1]
             /\ players'[2] = players[2]]_vars

\* C24: play_square on a marked square is answered with UNEXPECTED and
\* leaves the game unchanged; no play changes a marked cell; an accepted
\* play changes exactly the requested cell, an index in 0 .. 8, from empty
\* to the mark of the mover; a requested index outside 0 .. 8 marks no cell.
C24_MarksOnlyRequestedEmptyCell ==
    \A u \in TttUsers, sq \in SquareInputs :
        LET r == Ttt_play_square(tself, u, sq)
            changed == {i \in AllSquares : r.g.board[i] # board[i]}
        IN  /\ \A i \in AllSquares : board[i] # "" => i \notin changed
            /\ (sq \in AllSquares /\ board[sq] # "")
                   => /\ r.resp.status = STATUS_UNEXPECTED
                      /\ r.g = tself
            /\ ("status" \in DOMAIN r.resp /\ r.resp.status = STATUS_OK)
                   => /\ changed = {sq}
                      /\ board[sq] = ""
                      /\ r.g.board[sq] = _username_to_mark(tself, u)
            /\ sq \notin AllSquares => changed = {}

Count(b, mark) == Cardinality({i \in AllSquares : b[i] = mark})

\* C25: from a blank game, in every reachable state the number of X marks
\* minus the number of O marks is 0 or 1 and x_turn is true exactly when
\* the counts are equal; every step that changes the board marks one empty
\* cell with X when x_turn is true and with O otherwise and flips x_turn,
\* so two consecutive moves place different marks.
C25_TurnAlternation ==
    /\ [](/\ Count(board, "X") - Count(board, "O") \in {0, 1}
          /\ x_turn <=> (Count(board, "X") = Count(board, "O")))
    /\ [][board' # board
            => /\ \E i \in AllSquares :
                     /\ board[i] = ""
                     /\ board' = [board EXCEPT
                                      ![i] = IF x_turn THEN "X" ELSE "O"]
               /\ x_turn' = ~x_turn]_vars

\* C25 witness: the single-player game after three moves, of the user and
\* of the bot.
C25_Witness ==
    /\ InSeq(BOT_NAME, players)
    /\ Count(board, "X") = 2
    /\ Count(board, "O") = 1
    /\ ~x_turn

NoDuplicates(s) == \A i, j \in 1 .. Len(s) : s[i] = s[j] => i = j

\* C26: players never holds a username twice; every step keeps the first
\* two entries of players in the list, and an entry that a step removes is
\* a spectator (beyond the first two) who leaves the game in that step.
C26_PlayerListDiscipline ==
    /\ [](NoDuplicates(players))
    /\ [][\A i \in 1 .. Len(players) :
             /\ i <= 2 => InSeq(players[i], players')
             /\ ~InSeq(players[i], players')
                   => /\ i >= 3
                      /\ players[i] \in in_game
                      /\ players[i] \notin in_game']_vars

\* C26 witness: both seated players and a spectator are in the game; the
\* client, already seated in the saved game, has joined it again.
C26_Witness ==
    /\ Len(players) = 3
    /\ in_game = {ClientUser, Opponent} \cup Visitors
    /\ game

\* the empty squares that complete a line of the bot's own mark
BotWinSquares(g) ==
    LET my_mark == _username_to_mark(g, BOT_NAME)
    IN  {s \in AllSquares :
            /\ g.board[s] = ""
            /\ \E l \in 1 .. Len(WINNING_LINES) :
                  /\ s \in {WINNING_LINES[l][k] : k \in 1 .. 3}
                  /\ \A k \in 1 .. 3 :
                        WINNING_LINES[l][k] # s
                            => g.board[WINNING_LINES[l][k]] = my_mark}

\* C27: while the current player is the bot, play_square of every username
\* is answered with UNEXPECTED and changes nothing; the bot moves only when
\* it is the current player, and then onto an empty square with its own
\* mark; whenever some empty square completes a line of the bot's mark, the
\* bot takes such a square and the game ends as a win of the bot.
C27_BotMoves ==
    /\ (_current_username(tself) = BOT_NAME)
          => \A u \in TttUsers \cup {BOT_NAME}, sq \in SquareInputs :
                LET r == Ttt_play_square(tself, u, sq)
                IN  /\ r.resp.status = STATUS_UNEXPECTED
                    /\ r.g = tself
    /\ (_current_username(tself) # BOT_NAME)
          => \A s \in AllSquares : _handle_bot(tself, s) = tself
    /\ (_current_username(tself) = BOT_NAME /\ ~bot_thinking)
          => \A s \in BotSquares(tself) :
                LET g1 == _handle_bot(tself, s)
                    my_mark == _username_to_mark(tself, BOT_NAME)
                IN  /\ board[s] = ""
                    /\ g1.board = [board EXCEPT ![s] = my_mark]
                    /\ BotWinSquares(tself) # {}
                          => /\ s \in BotWinSquares(tself)
                             /\ ~g1.in_progress
                             /\ g1.outcome = <<BOT_NAME, " playing as ",
                                               my_mark, " wins!">>

\* C28: in every reachable state of the game, the Game constructed from its
\* save string has the same board, players, x_turn and in_progress, and so
\* the same fingerprint; and persistent is true only if the game is in
\* progress and some square is marked.
C28_SaveRestoreRoundTrip ==
    LET g2 == Ttt_Game(Ttt_get_save_string(tself))
    IN  /\ g2.board = board
        /\ g2.players = players
        /\ g2.x_turn = x_turn
        /\ g2.in_progress = in_progress
        /\ _state_hash(g2) = _state_hash(tself)
        /\ Ttt_persistent(tself)
              => (in_progress /\ \E i \in AllSquares : board[i] # "")

\* C28 witness: a persistent game, in progress with marks of both players
\* on the board.
C28_Witness ==
    /\ Ttt_persistent(tself)
    /\ Count(board, "X") = 2
    /\ Count(board, "O") = 2

\* C29: no assertion of the ClientFrame ever fails, a task
\* _async_set_client starts only while no client is set, and the step in
\* which async_connect of a client returns leaves the frame without
\* client, without user frame and on the connect screen.
C29_OneClient ==
    /\ [](failed = {})
    /\ [][(\E c \in tasks : c \notin tasks') => _client = NoClient]_vars
    /\ [][(\E c \in ClientIds : /\ clients[c].state = "ended"
                                  /\ clients'[c].state = "none")
            => /\ _client' = NoClient
               /\ content' = 0
               /\ _sm' = "connect"]_vars

\* C21: when the app replaces its client, the old client is closed in that
\* step; and a status or connection event of a client that is not the
\* client of the app changes neither the status bar nor the client, the
\* screen or the client of the server frame, and fails no assertion.
C21_OldClientEventsIgnored ==
    /\ [][(_client # NoClient /\ _client' # _client)
            => clients'[_client.id].state \in {"closed", "ended", "none"}]_vars
    /\ [][\A c \in ClientIds :
             (/\ ~IsClient(c)
              /\ \/ clients'[c].events < clients[c].events
                 \/ /\ clients'[c].state # clients[c].state
                    /\ clients'[c].state \in {"connected", "ended"})
                => UNCHANGED <<feedback, _client, _sm, content, failed>>]_vars

\* C21 witness: a status event of an old client has just been delivered
\* and logged as "Old client event", while the app has another client.
C21_Witness ==
    /\ last.op = "_on_client_status"
    /\ last.warned
    /\ _client # NoClient
    /\ clients[_client.id].state = "connecting"

\* C30: for every configuration, load_from_disk of what save_to_disk wrote
\* is equal to it field by field, with the text file of connectframe.py
\* and with the JSON file of connectpanel.py.
C30_ConfigRoundTrip ==
    /\ Frame_load_from_disk(Frame_save_to_disk(config)) = config
    /\ Panel_load_from_disk(Panel_save_to_disk(config)) = config

====
